---- MODULE Spec2Model ----
(***************************************************************************)
(* Model of autogen/autogen_simple_demo.py: the five-phase interview       *)
(* platform workflow (SimpleInterviewPlatformWorkflow) and the script's    *)
(* top-level try/except block.                                             *)
(*                                                                         *)
(* A text is a sequence of characters; a message, a console line and a     *)
(* file are sequences of tokens, where a fixed piece of the source's       *)
(* string literals is one token and an interpolated text contributes its   *)
(* characters one by one.                                                  *)
(***************************************************************************)
EXTENDS Integers, Sequences, FiniteSets, TLC

\* ------------------------------------------------------------------ bounds
\* Longest reply the completion service gives.
MaxTextLen == 1
\* Last instant of the wall clock (in ticks).
MaxClock == 3
\* Resolution of the wall clock: ticks per second.
TicksPerSecond == 2
\* Number of process invocations in one working directory.
MaxRuns == 2

VARIABLES
    pc,          \* position of the process: start, constructed, phase, wait,
                 \* summary, returned, raised, exited
    step,        \* index into RunOrder of the phase run() is executing
    outputs,     \* self.outputs: insertion-ordered mapping, as a sequence of entries
    client,      \* TRUE once self.client has been created
    validations, \* number of Config.validate_setup() calls of this process
    inflight,    \* requests the completion service has not answered yet
    calls,       \* the completion service's log of this process's requests
    console,     \* lines printed by this process
    error,       \* the exception travelling to the top level ("none" if none)
    raisedAt,    \* step whose phase raised (0: none, 6: summary step)
    exitCode,    \* exit status of the process, meaningful once pc = "exited"
    fs,          \* the working directory: file name -> file content
    written,     \* names of the files this process wrote
    saved,       \* history of the successful file writes in the working directory
    clock,       \* the wall clock, in ticks
    runs,        \* number of process invocations so far
    replies      \* the texts the completion service may answer this process with

vars == <<pc, step, outputs, client, validations, inflight, calls, console,
          error, raisedAt, exitCode, fs, written, saved, clock, runs, replies>>

\* ------------------------------------------------------------------- texts
Stub(n) == [i \in 1..n |-> "t"]

Texts == {Stub(n) : n \in 0..MaxTextLen}

\* ------------------------------------------------- the output mapping (dict)
Keys(d) == {d[i].key : i \in DOMAIN d}

Get(d, k) == d[CHOOSE i \in DOMAIN d : d[i].key = k].text

\* Faulty variant: the store replaces the whole mapping by the one entry.
DictSetClobber(d, k, v) == <<[key |-> k, text |-> v]>>

\* d[k] = v on a Python dict: a new key goes last, an old key keeps its place.
DictSet(d, k, v) ==
    IF k \in Keys(d)
    THEN [i \in DOMAIN d |-> IF d[i].key = k THEN [key |-> k, text |-> v] ELSE d[i]]
    ELSE Append(d, [key |-> k, text |-> v])

\* ------------------------------------------------------------------ phases
\* Faulty variant: run() starts the launch phase before the blueprint phase.
RunOrderLaunchFirst == <<"research", "analysis", "launch", "blueprint", "review">>

\* The calls of run(), in order.
RunOrder == <<"research", "analysis", "blueprint", "launch", "review">>

\* Faulty variant: the review phase stores its reply under the blueprint key.
PhaseKeyReviewSlip(phase) == IF phase = "review" THEN "blueprint" ELSE phase

\* The key a phase stores its reply under.
PhaseKey(phase) == phase

\* The keys a phase reads from self.outputs when it builds its user message.
Preds(phase) ==
    CASE phase = "research" -> {}
      [] phase = "analysis" -> {"research"}
      [] phase = "blueprint" -> {"analysis"}
      [] phase = "launch" -> {"blueprint"}
      [] phase = "review" -> {"blueprint", "launch"}

PhaseTitle(phase) ==
    CASE phase = "research" -> "PHASE 1: MARKET RESEARCH"
      [] phase = "analysis" -> "PHASE 2: OPPORTUNITY ANALYSIS"
      [] phase = "blueprint" -> "PHASE 3: PRODUCT BLUEPRINT"
      [] phase = "launch" -> "PHASE 4: GO-TO-MARKET STRATEGY"
      [] phase = "review" -> "PHASE 5: STRATEGIC REVIEW"

AgentName(phase) ==
    CASE phase = "research" -> "ResearchAgent"
      [] phase = "analysis" -> "AnalysisAgent"
      [] phase = "blueprint" -> "BlueprintAgent"
      [] phase = "launch" -> "LaunchAgent"
      [] phase = "review" -> "ReviewerAgent"

ResearchMessage == <<"Analyze the current market for AI-powered interview platforms.">>

AnalysisMessage(outs) ==
    <<"Market research findings:\n">> \o Get(outs, "research")
        \o <<"\n\nNow identify market opportunities and gaps.">>

BlueprintMessage(outs) ==
    <<"Market Analysis:\n">> \o Get(outs, "analysis")
        \o <<"\n\nCreate a product blueprint for our platform.">>

LaunchMessage(outs) ==
    <<"Product Blueprint:\n">> \o Get(outs, "blueprint")
        \o <<"\n\nCreate a go-to-market plan for launch.">>

ReviewMessage(outs) ==
    <<"Product Blueprint:\n">> \o Get(outs, "blueprint")
        \o <<"\n\nLaunch Plan:\n">> \o Get(outs, "launch")
        \o <<"\n\nProvide strategic review and recommendations.">>

\* Faulty variant: the review prompt leaves the launch plan out.
UserMessageNoLaunch(phase, outs) ==
    CASE phase = "research" -> ResearchMessage
      [] phase = "analysis" -> AnalysisMessage(outs)
      [] phase = "blueprint" -> BlueprintMessage(outs)
      [] phase = "launch" -> LaunchMessage(outs)
      [] phase = "review" ->
            <<"Product Blueprint:\n">> \o Get(outs, "blueprint")
                \o <<"\n\nProvide strategic review and recommendations.">>

\* The user message of a phase, an f-string over self.outputs.
UserMessage(phase, outs) ==
    CASE phase = "research" -> ResearchMessage
      [] phase = "analysis" -> AnalysisMessage(outs)
      [] phase = "blueprint" -> BlueprintMessage(outs)
      [] phase = "launch" -> LaunchMessage(outs)
      [] phase = "review" -> ReviewMessage(outs)

\* ------------------------------------------------------------ time and files
\* strftime at one-second resolution: the ticks within a second are dropped.
Stamp(t) == ToString(t \div TicksPerSecond)

\* Faulty variant: every run writes the same file.
FileNameFixed(t) == <<"workflow_outputs", ".txt">>

\* f"workflow_outputs_{timestamp}.txt"
FileName(t) == <<"workflow_outputs_", Stamp(t), ".txt">>

Rule == "--------------------------------------------------------------------------------"

DoubleRule == "================================================================================"

FileHeader(gen) ==
    <<DoubleRule, "\n", "AUTOGEN INTERVIEW PLATFORM WORKFLOW - FULL RESULTS\n",
      DoubleRule, "\n", "Generated: ", Stamp(gen), "\n", "Model: ", "MODEL", "\n\n">>

FileSection(phase, outs) ==
    <<"\n", Rule, "\n", PhaseTitle(phase), "\n", Rule, "\n">>
        \o Get(outs, phase) \o <<"\n">>

\* Faulty variant: the launch section repeats the blueprint's text.
FileContentLaunchSlip(outs, gen) ==
    FileHeader(gen)
        \o FileSection("research", outs) \o FileSection("analysis", outs)
        \o FileSection("blueprint", outs)
        \o <<"\n", Rule, "\n", PhaseTitle("launch"), "\n", Rule, "\n">>
        \o Get(outs, "blueprint") \o <<"\n">>
        \o FileSection("review", outs)

\* Everything print_summary writes to the output file, in order.
FileContent(outs, gen) ==
    FileHeader(gen)
        \o FileSection("research", outs) \o FileSection("analysis", outs)
        \o FileSection("blueprint", outs) \o FileSection("launch", outs)
        \o FileSection("review", outs)

ConsoleSection(phase, outs) ==
    <<<<"\n", Rule>>, <<PhaseTitle(phase), " (Full Output)">>, <<Rule>>, Get(outs, phase)>>

\* The console report of print_summary up to the file write.
ConsoleReport(outs) ==
    <<<<"\n", DoubleRule>>, <<"FINAL SUMMARY">>, <<DoubleRule>>,
      <<"This workflow demonstrated a 5-agent collaboration">>,
      <<"\n", DoubleRule>>, <<"FULL RESULTS - ALL PHASES">>, <<DoubleRule>>>>
        \o ConsoleSection("research", outs) \o ConsoleSection("analysis", outs)
        \o ConsoleSection("blueprint", outs) \o ConsoleSection("launch", outs)
        \o ConsoleSection("review", outs)

\* ----------------------------------------------------------- control flow
\* Faulty variant: the constructor reports the failed validation and goes on.
AfterValidationNoExit(ok) == "constructed"

\* __init__: exit(1) when Config.validate_setup() fails, else the object is built.
AfterValidation(ok) == IF ok THEN "constructed" ELSE "exited"

\* Faulty variant: run() swallows a phase's exception and goes on to the next step.
AfterRaiseContinue(s, log) ==
    IF s < Len(RunOrder) THEN [pc |-> "phase", step |-> s + 1]
    ELSE [pc |-> "summary", step |-> s]

\* Faulty variant: a failed call is issued again (up to a sixth request).
AfterRaiseRetry(s, log) ==
    IF Len(log) <= Len(RunOrder) THEN [pc |-> "phase", step |-> s]
    ELSE [pc |-> "raised", step |-> s]

\* An exception of a phase is caught neither by the phase nor by run(): it
\* leaves run() for the except clause of the top level.
AfterRaise(s, log) == [pc |-> "raised", step |-> s]

\* After a phase has stored its reply: the next call of run().
AfterStore(s) ==
    IF s < Len(RunOrder) THEN [pc |-> "phase", step |-> s + 1]
    ELSE [pc |-> "summary", step |-> s]

SystemPrompt(phase) ==
    CASE phase = "research" -> <<"You are a market research analyst.">>
      [] phase = "analysis" -> <<"You are a product analyst.">>
      [] phase = "blueprint" -> <<"You are a product designer.">>
      [] phase = "launch" -> <<"You are a go-to-market strategist.">>
      [] phase = "review" -> <<"You are a product reviewer and strategist.">>

\* The argument of self.client.chat.completions.create, with the service's answer.
Request(phase, outs) ==
    [phase |-> phase,
     messages |-> <<[role |-> "system", content |-> SystemPrompt(phase)],
                    [role |-> "user", content |-> UserMessage(phase, outs)]>>,
     outcome |-> "pending",
     reply |-> <<>>]

Answered(log, outcome, text) ==
    [log EXCEPT ![Len(log)] = [@ EXCEPT !.outcome = outcome, !.reply = text]]

ConfigError == <<"ERROR: Configuration validation failed!">>

SuccessLine == <<"Workflow completed successfully!">>

Troubleshooting ==
    <<<<"Troubleshooting:">>,
      <<"1. Verify OPENAI_API_KEY is set in parent directory .env (../.env)">>,
      <<"2. Check your API key has sufficient credits">>,
      <<"3. Verify internet connection">>,
      <<"4. Ensure config.py can access shared_config from parent directory">>,
      <<"5. Check OpenAI API status at https://status.openai.com">>>>

ErrorLine(e) == <<"Error during workflow execution: ", e>>

TraceLine(e) == <<"Traceback (most recent call last):", e>>

\* ------------------------------------------------------------------ actions
InitProcess ==
    /\ pc = "start"
    /\ step = 0
    /\ outputs = <<>>
    /\ client = FALSE
    /\ validations = 0
    /\ inflight = <<>>
    /\ calls = <<>>
    /\ console = <<>>
    /\ error = "none"
    /\ raisedAt = 0
    /\ exitCode = 0
    /\ written = {}

Init ==
    /\ InitProcess
    /\ fs = <<>>
    /\ saved = <<>>
    /\ clock = 0
    /\ runs = 1
    /\ replies = Texts

\* SimpleInterviewPlatformWorkflow.__init__
Construct ==
    /\ pc = "start"
    /\ \E ok \in BOOLEAN :
         LET next == AfterValidation(ok) IN
         /\ validations' = validations + 1
         /\ console' = IF ok THEN console ELSE Append(console, ConfigError)
         /\ pc' = next
         /\ client' = (next = "constructed")
         /\ exitCode' = IF next = "exited" THEN 1 ELSE exitCode
    /\ outputs' = <<>>
    /\ UNCHANGED <<step, inflight, calls, error, raisedAt, fs, written, saved,
                   clock, runs, replies>>

\* run(): the banner, up to the first phase call.
RunStart ==
    /\ pc = "constructed"
    /\ console' = console \o <<<<"\n", DoubleRule>>,
                               <<"AUTOGEN INTERVIEW PLATFORM WORKFLOW - SIMPLIFIED DEMO">>,
                               <<DoubleRule>>,
                               <<"Start Time: ", Stamp(clock)>>,
                               <<"Model: ", "MODEL">>>>
    /\ pc' = "phase"
    /\ step' = 1
    /\ UNCHANGED <<outputs, client, validations, inflight, calls, error, raisedAt,
                   exitCode, fs, written, saved, clock, runs, replies>>

\* phase_*: the banner, the user message and the request; the process then
\* blocks on the completion service.
PhaseCall ==
    /\ pc = "phase"
    /\ LET phase == RunOrder[step] IN
       /\ console' = console \o <<<<"\n", DoubleRule>>, <<PhaseTitle(phase)>>,
                                  <<DoubleRule>>, <<AgentName(phase), " is working">>>>
       /\ IF Preds(phase) \subseteq Keys(outputs)
          THEN /\ inflight' = Append(inflight, Request(phase, outputs))
               /\ calls' = Append(calls, Request(phase, outputs))
               /\ pc' = "wait"
               /\ UNCHANGED <<step, error, raisedAt>>
          ELSE \* self.outputs[...] raises KeyError
               /\ error' = "KeyError"
               /\ raisedAt' = step
               /\ pc' = AfterRaise(step, calls).pc
               /\ step' = AfterRaise(step, calls).step
               /\ UNCHANGED <<inflight, calls>>
    /\ UNCHANGED <<outputs, client, validations, exitCode, fs, written, saved,
                   clock, runs, replies>>

\* phase_*: the service answers; the reply is stored and printed.
PhaseReply ==
    /\ pc = "wait"
    /\ \E text \in replies :
         LET phase == RunOrder[step] IN
         /\ outputs' = DictSet(outputs, PhaseKey(phase), text)
         /\ calls' = Answered(calls, "ok", text)
         /\ console' = console \o <<<<AgentName(phase), " Output">>,
                                    Get(outputs', PhaseKey(phase))>>
    /\ inflight' = Tail(inflight)
    /\ pc' = AfterStore(step).pc
    /\ step' = AfterStore(step).step
    /\ UNCHANGED <<client, validations, error, raisedAt, exitCode, fs, written,
                   saved, clock, runs, replies>>

\* phase_*: create() raises (transport, authentication), or the answer has
\* no choices[0].message.content to read.
PhaseRaise ==
    /\ pc = "wait"
    /\ \E e \in {"APIError", "IndexError"} :
         /\ error' = e
         /\ calls' = Answered(calls, IF e = "APIError" THEN "raised" ELSE "malformed", <<>>)
    /\ raisedAt' = step
    /\ inflight' = Tail(inflight)
    /\ pc' = AfterRaise(step, calls').pc
    /\ step' = AfterRaise(step, calls').step
    /\ UNCHANGED <<outputs, client, validations, console, exitCode, fs, written,
                   saved, clock, runs, replies>>

\* print_summary: the console report, then the file. The clock is read for the
\* file name and again for the header's "Generated" line.
PrintSummary ==
    /\ pc = "summary"
    /\ IF {RunOrder[i] : i \in DOMAIN RunOrder} \subseteq Keys(outputs)
       THEN \E dt \in 0..1 :
              /\ clock + dt <= MaxClock
              /\ clock' = clock + dt
              /\ console' = console \o ConsoleReport(outputs)
                               \o <<<<"Full results saved to: ">> \o FileName(clock),
                                    <<"End Time: ", Stamp(clock')>>, <<DoubleRule>>>>
              /\ fs' = (FileName(clock) :> FileContent(outputs, clock')) @@ fs
              /\ written' = written \cup {FileName(clock)}
              /\ saved' = Append(saved, [run |-> runs, at |-> clock,
                                         name |-> FileName(clock),
                                         content |-> FileContent(outputs, clock')])
              /\ pc' = "returned"
              /\ UNCHANGED <<error, raisedAt>>
       ELSE \* print(self.outputs[...]) raises KeyError
            /\ error' = "KeyError"
            /\ raisedAt' = Len(RunOrder) + 1
            /\ pc' = "raised"
            /\ UNCHANGED <<console, fs, written, saved, clock>>
    /\ UNCHANGED <<step, outputs, client, validations, inflight, calls, exitCode,
                   runs, replies>>

\* print_summary: open() raises after the console report.
SummaryRaise ==
    /\ pc = "summary"
    /\ {RunOrder[i] : i \in DOMAIN RunOrder} \subseteq Keys(outputs)
    /\ console' = console \o ConsoleReport(outputs)
    /\ error' = "OSError"
    /\ raisedAt' = Len(RunOrder) + 1
    /\ pc' = "raised"
    /\ UNCHANGED <<step, outputs, client, validations, inflight, calls, exitCode,
                   fs, written, saved, clock, runs, replies>>

\* __main__: run() returned; the script ends.
MainSuccess ==
    /\ pc = "returned"
    /\ console' = Append(console, SuccessLine)
    /\ pc' = "exited"
    /\ exitCode' = 0
    /\ UNCHANGED <<step, outputs, client, validations, inflight, calls, error,
                   raisedAt, fs, written, saved, clock, runs, replies>>

\* __main__: the except clause; the script then ends as after a success.
MainExcept ==
    /\ pc = "raised"
    /\ console' = console \o <<ErrorLine(error)>> \o Troubleshooting
                      \o <<TraceLine(error)>>
    /\ pc' = "exited"
    /\ exitCode' = 0
    /\ UNCHANGED <<step, outputs, client, validations, inflight, calls, error,
                   raisedAt, fs, written, saved, clock, runs, replies>>

\* Time passes.
Tick ==
    /\ clock < MaxClock
    /\ clock' = clock + 1
    /\ UNCHANGED <<pc, step, outputs, client, validations, inflight, calls, console,
                   error, raisedAt, exitCode, fs, written, saved, runs, replies>>

\* The script is started again in the same working directory, against a
\* service stubbed with one reply.
NewProcess ==
    /\ pc = "exited"
    /\ runs < MaxRuns
    /\ runs' = runs + 1
    /\ \E stub \in Texts : replies' = {stub}
    /\ pc' = "start"
    /\ step' = 0
    /\ outputs' = <<>>
    /\ client' = FALSE
    /\ validations' = 0
    /\ inflight' = <<>>
    /\ calls' = <<>>
    /\ console' = <<>>
    /\ error' = "none"
    /\ raisedAt' = 0
    /\ exitCode' = 0
    /\ written' = {}
    /\ UNCHANGED <<fs, saved, clock>>

Next ==
    \/ Construct
    \/ RunStart
    \/ PhaseCall
    \/ PhaseReply
    \/ PhaseRaise
    \/ PrintSummary
    \/ SummaryRaise
    \/ MainSuccess
    \/ MainExcept
    \/ Tick

\* One invocation of the script.
Spec == Init /\ [][Next]_vars

InitRuns ==
    /\ InitProcess
    /\ fs = <<>>
    /\ saved = <<>>
    /\ clock = 0
    /\ runs = 1
    /\ \E stub \in Texts : replies = {stub}

NextRuns == Next \/ NewProcess

\* Several invocations, one after the other, in one working directory.
SpecRuns == InitRuns /\ [][NextRuns]_vars

\* ------------------------------------------------------------- properties
\* The five phase names in the order the specification fixes.
Five == <<"research", "analysis", "blueprint", "launch", "review">>

Contains(msg, text) ==
    \E i \in 0..(Len(msg) - Len(text)) : SubSeq(msg, i + 1, i + Len(text)) = text

KeySeq(d) == [i \in DOMAIN d |-> d[i].key]

Printed(line) == \E i \in DOMAIN console : console[i] = line

\* The calls of the log that asked for a phase.
CallsOf(phase) == {i \in DOMAIN calls : calls[i].phase = phase}

UserOf(i) == calls[i].messages[2].content

\* The phase's call was answered with a reply, and that reply is the stored text.
StoredFrom(q, i) ==
    /\ q \in Keys(outputs)
    /\ \E j \in 1..(i - 1) :
         /\ calls[j].phase = q
         /\ calls[j].outcome = "ok"
         /\ calls[j].reply = Get(outputs, q)

Embeds(i, q) == StoredFrom(q, i) /\ Contains(UserOf(i), Get(outputs, q))

\* C1: a run whose phases all succeeded holds exactly the five entries
\* research, analysis, blueprint, launch, review, stored in that order; at
\* every moment the stored keys are a prefix of that order, so no other key
\* is ever stored.
C1_FiveOutputsInOrder ==
    /\ Len(outputs) <= Len(Five)
    /\ KeySeq(outputs) = SubSeq(Five, 1, Len(outputs))
    /\ pc \in {"summary", "returned"} => KeySeq(outputs) = Five
    /\ (pc = "exited" /\ client /\ raisedAt = 0) => KeySeq(outputs) = Five

C1_Witness ==
    /\ pc = "exited"
    /\ Printed(SuccessLine)
    /\ KeySeq(outputs) = Five
    /\ Get(outputs, "research") # Get(outputs, "review")

\* C2: the user message of every request contains, in full, the stored text
\* of each predecessor phase, and that text is the reply the service gave to
\* the predecessor's request: analysis embeds research, blueprint embeds
\* analysis, launch embeds blueprint, review embeds blueprint and launch.
C2_ContextPassing ==
    \A i \in DOMAIN calls :
        /\ calls[i].phase = "analysis" => Embeds(i, "research")
        /\ calls[i].phase = "blueprint" => Embeds(i, "analysis")
        /\ calls[i].phase = "launch" => Embeds(i, "blueprint")
        /\ calls[i].phase = "review" => Embeds(i, "blueprint") /\ Embeds(i, "launch")

C2_Witness ==
    /\ \E i \in DOMAIN calls : calls[i].phase = "review"
    /\ Get(outputs, "blueprint") = <<>>
    /\ Get(outputs, "launch") # <<>>
    /\ Get(outputs, "research") # Get(outputs, "analysis")

\* C3: a phase's request is issued only after every predecessor's output has
\* been stored, and no phase started through run() fails on a missing key.
C3_PredecessorsFirst ==
    /\ error # "KeyError"
    /\ \A i \in DOMAIN calls :
         /\ calls[i].phase = "analysis" => StoredFrom("research", i)
         /\ calls[i].phase = "blueprint" => StoredFrom("analysis", i)
         /\ calls[i].phase = "launch" => StoredFrom("blueprint", i)
         /\ calls[i].phase = "review" =>
                StoredFrom("blueprint", i) /\ StoredFrom("launch", i)
    /\ (pc = "wait" /\ step = 1) => calls[Len(calls)].phase = "research"

C3_Witness ==
    /\ pc = "wait"
    /\ calls[Len(calls)].phase = "review"
    /\ {"blueprint", "launch"} \subseteq Keys(outputs)

\* C4: a failed validation ends the process in the constructor with the
\* fixed message and nothing else: no client, no request, no stored output,
\* no file; and validation happens once, before the first phase.
C4_ValidationAbort ==
    /\ validations <= 1
    /\ (pc # "start") => validations = 1
    /\ (calls # <<>> \/ step >= 1) => (validations = 1 /\ client)
    /\ Printed(ConfigError) =>
         /\ pc = "exited"
         /\ exitCode = 1
         /\ console = <<ConfigError>>
         /\ ~client
         /\ calls = <<>>
         /\ inflight = <<>>
         /\ step = 0
         /\ outputs = <<>>
         /\ written = {}
         /\ fs = <<>>

C4_Witness == pc = "exited" /\ Printed(ConfigError) /\ validations = 1 /\ clock > 0

\* C5: when the remote call of phase N raises, that call is the last request
\* of the run, the outputs are exactly those of phases 1..N-1, the summary
\* step never runs and the run writes no file.
C5_FailureStopsRun ==
    (raisedAt \in 1..Len(Five)) =>
        /\ pc \in {"raised", "exited"}
        /\ Len(calls) = raisedAt
        /\ calls[Len(calls)].phase = Five[raisedAt]
        /\ inflight = <<>>
        /\ KeySeq(outputs) = SubSeq(Five, 1, raisedAt - 1)
        /\ ~Printed(<<"FINAL SUMMARY">>)
        /\ written = {}
        /\ fs = <<>>

C5_Witness ==
    /\ pc = "exited"
    /\ raisedAt = 3
    /\ error = "APIError"
    /\ Len(outputs) = 2

\* The titles of the file's sections, in the order they occur in the file.
IsTitle(tok) == \E k \in DOMAIN Five : tok = PhaseTitle(Five[k])

TitlesOf(file) == SelectSeq(file, IsTitle)

\* The body of the section whose title is at position i: what follows the
\* title line and the rule line, up to the newline that ends the body.
BodyAt(file, i) ==
    LET from == i + 4
        to == CHOOSE j \in from..Len(file) :
                 /\ file[j] = "\n"
                 /\ \A m \in from..(j - 1) : file[m] # "\n"
    IN SubSeq(file, from, to - 1)

FileBody(file, phase) ==
    BodyAt(file, CHOOSE i \in DOMAIN file : file[i] = PhaseTitle(phase))

\* The text printed in the console report under the phase's banner.
ConsoleBody(phase) ==
    console[(CHOOSE i \in DOMAIN console :
                console[i] = <<PhaseTitle(phase), " (Full Output)">>) + 2]

\* C6: after a run in which all five phases succeeded, the file the run wrote
\* holds exactly the five titled sections in phase order, and the body of
\* each is the stored text of that phase, which is also the text of the
\* console report and the service's reply.
C6_FileRoundTrip ==
    \A name \in written :
        /\ name \in DOMAIN fs
        /\ TitlesOf(fs[name]) = [k \in DOMAIN Five |-> PhaseTitle(Five[k])]
        /\ \A k \in DOMAIN Five :
             /\ FileBody(fs[name], Five[k]) = Get(outputs, Five[k])
             /\ FileBody(fs[name], Five[k]) = ConsoleBody(Five[k])
             /\ FileBody(fs[name], Five[k]) = calls[k].reply

C6_Witness ==
    /\ pc = "exited"
    /\ written # {}
    /\ Get(outputs, "blueprint") # Get(outputs, "launch")
    /\ Get(outputs, "research") # <<>>
    /\ \A name \in written : FileBody(fs[name], "launch") = Get(outputs, "launch")

\* C7: the exit of the process tells success from failure: after a completed
\* run the confirmation is printed and the status is 0; after an exception of
\* a phase or of the summary step the error, the five troubleshooting items
\* and the trace are printed, the confirmation is not, and the status is not
\* the success status.
C7_ExitDistinguishes ==
    pc = "exited" =>
        /\ (client /\ error = "none") => (Printed(SuccessLine) /\ exitCode = 0)
        /\ (error # "none") =>
              /\ Printed(ErrorLine(error))
              /\ \A k \in DOMAIN Troubleshooting : Printed(Troubleshooting[k])
              /\ Printed(TraceLine(error))
              /\ ~Printed(SuccessLine)
              /\ exitCode # 0

\* C8 as stated: every successful run has a file of its own, and the file of
\* an earlier run is intact after every later run.
C8_NeverOverwrites ==
    \A i \in DOMAIN saved :
        /\ saved[i].name \in DOMAIN fs
        /\ fs[saved[i].name] = saved[i].content
        /\ \A j \in DOMAIN saved : j # i => saved[j].name # saved[i].name

\* C8 as amended: the file name carries the timestamp at one-second
\* resolution, so two successful runs whose timestamps differ in the second
\* write distinct files, and the file of a run is intact as long as no later
\* run was stamped with the same second.
C8_DistinctSeconds ==
    \A i \in DOMAIN saved :
        /\ saved[i].name \in DOMAIN fs
        /\ \A j \in DOMAIN saved :
             (saved[i].at \div TicksPerSecond # saved[j].at \div TicksPerSecond)
                 => saved[j].name # saved[i].name
        /\ (\A j \in (i + 1)..Len(saved) :
                saved[i].at \div TicksPerSecond # saved[j].at \div TicksPerSecond)
             => fs[saved[i].name] = saved[i].content

C8_Witness ==
    /\ Len(saved) = 2
    /\ saved[1].at \div TicksPerSecond # saved[2].at \div TicksPerSecond
    /\ saved[1].content # saved[2].content
    /\ fs[saved[1].name] = saved[1].content
    /\ fs[saved[2].name] = saved[2].content

\* C9: a run makes at most five requests, at most one per phase and exactly
\* one for every phase that stored an output, never more than one at a time,
\* and a request that failed is the last request of the run.
C9_OneCallPerPhase ==
    /\ Len(calls) <= Len(Five)
    /\ Len(inflight) <= 1
    /\ \A k \in DOMAIN Five : Cardinality(CallsOf(Five[k])) <= 1
    /\ \A k \in Keys(outputs) : Cardinality(CallsOf(k)) = 1
    /\ \A i \in DOMAIN calls :
         /\ calls[i].outcome \in {"raised", "malformed"} => i = Len(calls)
         /\ calls[i].outcome = "pending" => (i = Len(calls) /\ inflight = <<calls[i]>>)
    /\ (\E i \in DOMAIN calls : calls[i].outcome \in {"raised", "malformed"})
         => inflight = <<>>

C9_Witness ==
    /\ pc = "exited"
    /\ Len(calls) = 4
    /\ calls[4].outcome = "raised"
    /\ calls[3].outcome = "ok"

\* C10: within a run every store appends the entry of the phase that ran and
\* leaves the entries stored before as they were: none is removed or
\* overwritten; the summary step does not change the mapping.
C10_WriteOnce ==
    [][/\ \A i \in DOMAIN outputs : i \in DOMAIN outputs' /\ outputs'[i] = outputs[i]
       /\ Len(outputs') <= Len(outputs) + 1
       /\ Len(outputs') = Len(outputs) + 1 =>
             (pc = "wait" /\ outputs'[Len(outputs')].key = Five[step])
       /\ pc \in {"summary", "returned", "raised"} => outputs' = outputs]_vars

C10_Witness ==
    /\ pc = "returned"
    /\ Len(outputs) = 5
    /\ written # {}
    /\ \A i \in DOMAIN outputs : outputs[i].text = calls[i].reply

====
